---- MODULE Spec2Model ----
(***************************************************************************)
(* Model of the chained hash table of src/hashmap.c (the translation unit  *)
(* that starts at line 264: the variant with key_size, generic_hash and    *)
(* generic_compare), used in generic key-size mode, together with the      *)
(* caller memory the table points into.                                    *)
(*                                                                         *)
(* hashmap_put stores the caller's key POINTER (entry->key = key) and      *)
(* every hash and compare dereferences it and reads map->key_size bytes,   *)
(* so a key is a reference to a region of caller memory (mem).  None of    *)
(* put/get/remove/contains takes a length: the length of the caller's key  *)
(* (len) is an input of the call that the code never sees.  A region is    *)
(* BufSize bytes of physical memory; a key of length len occupies its      *)
(* first len bytes and the bytes behind it are whatever the adjacent       *)
(* memory holds, which is what a read of key_size > len bytes returns.     *)
(***************************************************************************)
EXTENDS Integers, Sequences, FiniteSets, TLC

\* ---- bounds of the model ----
NumBufs == 2        \* caller memory regions that can hold a key
BufSize == 2        \* bytes in one region
MaxByte == 1        \* byte values are 0..MaxByte
MaxVal == 1         \* value references are 1..MaxVal, NULL is 0
MaxSize == 2        \* puts that would link an entry beyond this are not made
MaxCapHint == 1     \* initial_capacity arguments are 0..MaxCapHint
MaxCreateHint == 3  \* initial_capacity arguments of the life-cycle specification

\* ---- program constants ----
NULL == 0
DEFAULT_CAPACITY == 16
LimbBase == 65536           \* size_t is carried as four 16-bit limbs
FNV_OFFSET_LO == 40389      \* 2166136261 = 0x811C9DC5: low limb 0x9DC5
FNV_OFFSET_HI == 33052      \*                          next limb 0x811C
FNV_PRIME_LO == 403         \* 16777619 = 0x01000193: low limb 0x0193
FNV_PRIME_HI == 256         \*                        next limb 0x0100

Bufs == 1..NumBufs
Bytes == 0..MaxByte
Vals == 0..MaxVal
Regions == [1..BufSize -> Bytes]

VARIABLES
    map,        \* "none": not created, "live", "destroyed"
    buckets,    \* map->buckets: sequence of capacity chains, head first;
                \* an entry is [key |-> region, value |-> reference]
    capacity,   \* map->capacity
    size,       \* map->size
    key_size,   \* map->key_size
    mem,        \* caller memory: region -> its bytes
    last,       \* the last call: its arguments, result and effects
    conc        \* calls in progress on two threads without mutual exclusion:
                \* a put inside hashmap_resize and a get inside its chain walk

vars == << map, buckets, capacity, size, key_size, mem, last, conc >>
table == << map, buckets, capacity, size, key_size >>

\* ---- size_t arithmetic of generic_hash, 64 bits in four 16-bit limbs ----
RECURSIVE XorBits(_, _, _)
XorBits(a, b, n) ==
    IF n = 0 THEN 0
    ELSE (((a % 2) + (b % 2)) % 2) + 2 * XorBits(a \div 2, b \div 2, n - 1)

\* hash ^= data[i]
HashXor(h, b) ==
    << (h[1] - (h[1] % 256)) + XorBits(h[1] % 256, b, 8), h[2], h[3], h[4] >>

\* hash *= 16777619UL, wrapping at 2^64
HashMul(h) ==
    LET r0 == h[1] * FNV_PRIME_LO
        r1 == h[2] * FNV_PRIME_LO + h[1] * FNV_PRIME_HI + (r0 \div LimbBase)
        r2 == h[3] * FNV_PRIME_LO + h[2] * FNV_PRIME_HI + (r1 \div LimbBase)
        r3 == h[4] * FNV_PRIME_LO + h[3] * FNV_PRIME_HI + (r2 \div LimbBase)
    IN  << r0 % LimbBase, r1 % LimbBase, r2 % LimbBase, r3 % LimbBase >>

RECURSIVE HashBytes(_, _, _)
HashBytes(h, data, i) ==
    IF i > Len(data) THEN h
    ELSE HashBytes(HashMul(HashXor(h, data[i])), data, i + 1)

\* generic_hash(key, key_size) on the bytes read at key
generic_hash(data) ==
    HashBytes(<< FNV_OFFSET_LO, FNV_OFFSET_HI, 0, 0 >>, data, 1)

\* hash % cap
HashMod(h, cap) ==
    LET m3 == h[4] % cap
        m2 == (m3 * LimbBase + h[3]) % cap
        m1 == (m2 * LimbBase + h[2]) % cap
    IN  (m1 * LimbBase + h[1]) % cap

\* memcmp(key1, key2, key_size) on the bytes read at the two pointers
RECURSIVE MemCmp(_, _, _)
MemCmp(d1, d2, i) ==
    IF i > Len(d1) THEN 0
    ELSE IF d1[i] # d2[i] THEN d1[i] - d2[i]
    ELSE MemCmp(d1, d2, i + 1)

generic_compare(d1, d2) == MemCmp(d1, d2, 1)

\* the key_size bytes the code reads at pointer key, in memory m
ReadKey(m, key, ks) == SubSeq(m[key], 1, ks)

\* generic_hash of every byte sequence a read can return, computed once
KeyData == UNION {[1..n -> Bytes] : n \in 1..BufSize}
HashPairs == {<< data, generic_hash(data) >> : data \in KeyData}
HashOf(data) == (CHOOSE p \in HashPairs : p[1] = data)[2]

\* hash % capacity for the bytes read at a key pointer (the C index, 0-based)
BucketIndex(data, cap) == HashMod(HashOf(data), cap)

\* a chain walk that takes the head of the chain without comparing keys
FindEntry_firstInChain(chain, m, data, ks) == IF Len(chain) > 0 THEN 1 ELSE 0

\* the chain walk of put, get and remove: position of the first entry whose
\* key bytes, read through its stored pointer, compare equal to data; 0 if none
RECURSIVE FindFrom(_, _, _, _, _)
FindFrom(chain, m, data, ks, i) ==
    IF i > Len(chain) THEN 0
    ELSE IF generic_compare(ReadKey(m, chain[i].key, ks), data) = 0 THEN i
    ELSE FindFrom(chain, m, data, ks, i + 1)

FindEntry(chain, m, data, ks) == FindFrom(chain, m, data, ks, 1)

EmptyBuckets(cap) == [i \in 1..cap |-> << >>]

\* the entries of all chains in the order hashmap_resize and hashmap_clear
\* visit them: bucket 0 first, each chain from its head
RECURSIVE Flatten(_, _)
Flatten(bs, i) ==
    IF i > Len(bs) THEN << >> ELSE bs[i] \o Flatten(bs, i + 1)

AllEntries(bs) == Flatten(bs, 1)

\* entry->next = bucket[index]; bucket[index] = entry
Prepend(bs, index, entry) == [bs EXCEPT ![index + 1] = << entry >> \o @]

\* the rehash loop of hashmap_resize: every entry is hashed again through
\* its stored key pointer and relinked at the head of its new chain
RECURSIVE Rehash(_, _, _, _, _, _)
Rehash(entries, i, new_buckets, m, ks, new_capacity) ==
    IF i > Len(entries) THEN new_buckets
    ELSE Rehash(entries, i + 1,
                Prepend(new_buckets,
                        BucketIndex(ReadKey(m, entries[i].key, ks), new_capacity),
                        entries[i]),
                m, ks, new_capacity)

\* hashmap_resize growing the bucket array by one slot instead of to new_capacity
hashmap_resize_growsByOne(bs, cap, m, ks, new_capacity, allocOk) ==
    IF ~allocOk
    THEN [ok |-> FALSE, buckets |-> bs, capacity |-> cap]
    ELSE [ok |-> TRUE,
          buckets |-> Rehash(AllEntries(bs), 1, EmptyBuckets(cap + 1), m, ks, cap + 1),
          capacity |-> cap + 1]

\* hashmap_resize losing the entries while it rehashes
hashmap_resize_dropsEntries(bs, cap, m, ks, new_capacity, allocOk) ==
    IF ~allocOk
    THEN [ok |-> FALSE, buckets |-> bs, capacity |-> cap]
    ELSE [ok |-> TRUE, buckets |-> EmptyBuckets(new_capacity), capacity |-> new_capacity]

\* hashmap_resize giving up the old bucket array before the new one is allocated
hashmap_resize_freesFirst(bs, cap, m, ks, new_capacity, allocOk) ==
    IF ~allocOk
    THEN [ok |-> FALSE, buckets |-> EmptyBuckets(cap), capacity |-> cap]
    ELSE [ok |-> TRUE,
          buckets |-> Rehash(AllEntries(bs), 1, EmptyBuckets(new_capacity), m, ks, new_capacity),
          capacity |-> new_capacity]

\* hashmap_resize(map, new_capacity): its return value and the bucket array
\* and capacity of the map when it returns
hashmap_resize(bs, cap, m, ks, new_capacity, allocOk) ==
    IF ~allocOk
    THEN [ok |-> FALSE, buckets |-> bs, capacity |-> cap]
    ELSE [ok |-> TRUE,
          buckets |-> Rehash(AllEntries(bs), 1, EmptyBuckets(new_capacity), m, ks, new_capacity),
          capacity |-> new_capacity]

\* a load-factor test that never asks for a resize
NeedsResize_never(sz, cap) == FALSE

\* a load-factor test with > in place of >=
NeedsResize_strict(sz, cap) == sz > (cap * 3) \div 4

\* if (map->size >= map->capacity * 3 / 4)
NeedsResize(sz, cap) == sz >= (cap * 3) \div 4

\* the lookup of hashmap_get for the bytes data read at its key argument
Lookup(bs, cap, m, ks, data) ==
    LET chain == bs[BucketIndex(data, cap) + 1]
        pos == FindEntry(chain, m, data, ks)
    IN  IF pos = 0 THEN NULL ELSE chain[pos].value

\* hashmap_get(map, key) on a live map and a non-NULL key
hashmap_get(bs, cap, m, ks, key) == Lookup(bs, cap, m, ks, ReadKey(m, key, ks))

\* hashmap_contains(map, key)
hashmap_contains(bs, cap, m, ks, key) == hashmap_get(bs, cap, m, ks, key) # NULL

\* an update that leaves the old value in the entry
SetValue_keepsOld(bs, index, pos, value) == bs

\* entry->value = value
SetValue(bs, index, pos, value) == [bs EXCEPT ![index + 1][pos].value = value]

\* a remove that cuts the chain at the entry, losing the entries behind it
Unlink_dropsTail(chain, pos) == SubSeq(chain, 1, pos - 1)

\* a remove that leaves the entry linked
Unlink_keepsEntry(chain, pos) == chain

\* prev->next = entry->next, or map->buckets[index] = entry->next
Unlink(chain, pos) == SubSeq(chain, 1, pos - 1) \o SubSeq(chain, pos + 1, Len(chain))

\* map->key_free and map->value_free are written once, by create, and only
\* read afterwards: whether each is set (kf, vf) is a parameter of the
\* operators below, which give the callback invocations of a call.

\* an update that releases the old value without comparing the references
UpdateFrees_unconditional(vf, old, value) == IF vf THEN << old >> ELSE << >>

\* the update path of put: if (map->value_free && entry->value != value)
UpdateFrees(vf, old, value) == IF vf /\ old # value THEN << old >> ELSE << >>

\* remove, clear: if (map->key_free) map->key_free(entry->key), per released entry
FreedKeysOf(kf, entries) ==
    IF kf THEN [i \in 1..Len(entries) |-> entries[i].key] ELSE << >>

\* remove, clear: if (map->value_free) map->value_free(entry->value)
FreedValuesOf(vf, entries) ==
    IF vf THEN [i \in 1..Len(entries) |-> entries[i].value] ELSE << >>

\* an update that hands the key of the call to key_free
UpdateKeyFrees_releasesNew(kf, stored_key, key) == IF kf THEN << key >> ELSE << >>

\* the update path of put makes no key_free call: the entry keeps its key and
\* the key of the call is dropped
UpdateKeyFrees(kf, stored_key, key) == << >>

\* the key_free invocations of a call
KeyFreeCalls(kf, call) ==
    IF call.op = "put" /\ call.replaced # << >>
    THEN UpdateKeyFrees(kf, NULL, call.key)
    ELSE FreedKeysOf(kf, call.released)

\* the value_free invocations of a call, from what the call replaced or released
ValueFreeCalls(vf, call) ==
    IF call.op = "put" /\ call.replaced # << >>
    THEN UpdateFrees(vf, call.replaced[1], call.value)
    ELSE FreedValuesOf(vf, call.released)

\* no call is in progress: every call so far ran from start to return alone
NoThreads ==
    [w |-> "idle", key |-> NULL, value |-> NULL, next |-> << >>,
     new_buckets |-> << >>, todo |-> << >>, i |-> 0,
     r |-> "idle", rkey |-> NULL, index |-> 0, cursor |-> NULL, result |-> NULL,
     expected |-> NULL, overlapped |-> FALSE, freedRead |-> FALSE]

NoCall == [op |-> "none", hasMap |-> FALSE, key |-> NULL, len |-> 0, value |-> NULL,
           ok |-> FALSE, out |-> 0, resized |-> FALSE, inserted |-> FALSE,
           allocFailed |-> FALSE, replaced |-> << >>, released |-> << >>,
           held |-> {}]

Init ==
    /\ map = "none"
    /\ buckets = << >>
    /\ capacity = 0
    /\ size = 0
    /\ key_size = 0
    /\ mem \in [Bufs -> Regions]
    /\ last = NoCall
    /\ conc = NoThreads

\* A create call returns [ok, capacity, allocFailed, held]: whether it
\* returns a table, the capacity of that table, whether an allocation failed,
\* and the blocks it allocated that are still allocated when it returns.

\* hashmap_create that rounds the capacity hint up to a power of two
hashmap_create_roundsUp(initial_capacity, hashSet, compareSet, mapAllocOk, bucketsAllocOk) ==
    LET cap == IF initial_capacity = 0 THEN DEFAULT_CAPACITY
               ELSE IF initial_capacity = 3 THEN 4 ELSE initial_capacity
    IN  IF ~mapAllocOk
        THEN [ok |-> FALSE, capacity |-> 0, allocFailed |-> TRUE, held |-> {}]
        ELSE IF ~bucketsAllocOk
        THEN [ok |-> FALSE, capacity |-> 0, allocFailed |-> TRUE, held |-> {}]
        ELSE IF ~hashSet \/ ~compareSet
        THEN [ok |-> FALSE, capacity |-> 0, allocFailed |-> FALSE, held |-> {}]
        ELSE [ok |-> TRUE, capacity |-> cap, allocFailed |-> FALSE,
              held |-> {"map", "buckets"}]

\* hashmap_create that frees only the table object when a function is missing
hashmap_create_leaksBuckets(initial_capacity, hashSet, compareSet, mapAllocOk, bucketsAllocOk) ==
    LET cap == IF initial_capacity = 0 THEN DEFAULT_CAPACITY ELSE initial_capacity
    IN  IF ~mapAllocOk
        THEN [ok |-> FALSE, capacity |-> 0, allocFailed |-> TRUE, held |-> {}]
        ELSE IF ~bucketsAllocOk
        THEN [ok |-> FALSE, capacity |-> 0, allocFailed |-> TRUE,
              held |-> {"map"} \ {"map"}]
        ELSE IF ~hashSet \/ ~compareSet
        THEN [ok |-> FALSE, capacity |-> 0, allocFailed |-> FALSE,
              held |-> {"map", "buckets"} \ {"map"}]
        ELSE [ok |-> TRUE, capacity |-> cap, allocFailed |-> FALSE,
              held |-> {"map", "buckets"}]

\* hashmap_create(initial_capacity, hash_func, key_compare, key_free, value_free);
\* hashSet, compareSet: hash_func, key_compare are not NULL
hashmap_create(initial_capacity, hashSet, compareSet, mapAllocOk, bucketsAllocOk) ==
    LET cap == IF initial_capacity = 0 THEN DEFAULT_CAPACITY ELSE initial_capacity
    IN  IF ~mapAllocOk
        THEN [ok |-> FALSE, capacity |-> 0, allocFailed |-> TRUE, held |-> {}]
        ELSE IF ~bucketsAllocOk
        THEN [ok |-> FALSE, capacity |-> 0, allocFailed |-> TRUE,
              held |-> {"map"} \ {"map"}]
        ELSE IF ~hashSet \/ ~compareSet
        THEN [ok |-> FALSE, capacity |-> 0, allocFailed |-> FALSE,
              held |-> {"map", "buckets"} \ {"buckets", "map"}]
        ELSE [ok |-> TRUE, capacity |-> cap, allocFailed |-> FALSE,
              held |-> {"map", "buckets"}]

\* hashmap_create_with_key_size(initial_capacity, key_size, key_free, value_free)
hashmap_create_with_key_size(initial_capacity, ks, mapAllocOk, bucketsAllocOk) ==
    LET cap == IF initial_capacity = 0 THEN DEFAULT_CAPACITY ELSE initial_capacity
    IN  IF ks = 0
        THEN [ok |-> FALSE, capacity |-> 0, allocFailed |-> FALSE, held |-> {}]
        ELSE IF ~mapAllocOk
        THEN [ok |-> FALSE, capacity |-> 0, allocFailed |-> TRUE, held |-> {}]
        ELSE IF ~bucketsAllocOk
        THEN [ok |-> FALSE, capacity |-> 0, allocFailed |-> TRUE,
              held |-> {"map"} \ {"map"}]
        ELSE [ok |-> TRUE, capacity |-> cap, allocFailed |-> FALSE,
              held |-> {"map", "buckets"}]

\* a call of hashmap_create_with_key_size by a caller that has no table
Create(initial_capacity, ks, mapAllocOk, bucketsAllocOk) ==
    /\ map = "none"
    /\ LET r == hashmap_create_with_key_size(initial_capacity, ks,
                                             mapAllocOk, bucketsAllocOk)
       IN  /\ IF r.ok
              THEN /\ map' = "live"
                   /\ buckets' = EmptyBuckets(r.capacity)
                   /\ capacity' = r.capacity
                   /\ size' = 0
                   /\ key_size' = ks
              ELSE UNCHANGED table
           /\ last' = [NoCall EXCEPT !.op = "create", !.ok = r.ok,
                                     !.out = initial_capacity, !.len = ks,
                                     !.allocFailed = r.allocFailed, !.held = r.held]
    /\ UNCHANGED mem

\* a call of hashmap_create by a caller that has no table; the table it
\* returns has key_size 0 and hashes and compares with the caller's functions
CreateCustom(initial_capacity, hashSet, compareSet, mapAllocOk, bucketsAllocOk) ==
    /\ map = "none"
    /\ LET r == hashmap_create(initial_capacity, hashSet, compareSet,
                               mapAllocOk, bucketsAllocOk)
       IN  /\ IF r.ok
              THEN /\ map' = "live"
                   /\ buckets' = EmptyBuckets(r.capacity)
                   /\ capacity' = r.capacity
                   /\ size' = 0
                   /\ key_size' = 0
              ELSE UNCHANGED table
           /\ last' = [NoCall EXCEPT !.op = "create_custom", !.ok = r.ok,
                                     !.out = initial_capacity,
                                     !.allocFailed = r.allocFailed, !.held = r.held]
    /\ UNCHANGED mem

\* hashmap_put(map, key, value).  len is the length of the caller's key: the
\* call has no parameter for it and the code never sees it.
Put(hasMap, key, len, value, resizeAllocOk, entryAllocOk) ==
    /\ hasMap => map = "live"
    /\ UNCHANGED << map, key_size, mem >>
    /\ LET call == [NoCall EXCEPT !.op = "put", !.hasMap = hasMap, !.key = key,
                                  !.len = len, !.value = value]
       IN
       IF ~hasMap \/ key = NULL
       THEN /\ UNCHANGED << buckets, capacity, size >>
            /\ last' = call
       ELSE
         LET grow == NeedsResize(size, capacity)
             rs == IF grow
                   THEN hashmap_resize(buckets, capacity, mem, key_size,
                                       capacity * 2, resizeAllocOk)
                   ELSE [ok |-> TRUE, buckets |-> buckets, capacity |-> capacity]
             data == ReadKey(mem, key, key_size)
             index == BucketIndex(data, rs.capacity)
             pos == FindEntry(rs.buckets[index + 1], mem, data, key_size)
         IN
         IF ~rs.ok
         THEN /\ buckets' = rs.buckets
              /\ capacity' = rs.capacity
              /\ size' = size
              /\ last' = [call EXCEPT !.allocFailed = TRUE]
         ELSE IF pos # 0
         THEN /\ buckets' = SetValue(rs.buckets, index, pos, value)
              /\ capacity' = rs.capacity
              /\ size' = size
              /\ last' = [call EXCEPT !.ok = TRUE, !.resized = grow,
                            !.replaced = << rs.buckets[index + 1][pos].value >>]
         ELSE IF ~entryAllocOk
         THEN /\ buckets' = rs.buckets
              /\ capacity' = rs.capacity
              /\ size' = size
              /\ last' = [call EXCEPT !.allocFailed = TRUE, !.resized = grow]
         ELSE /\ size < MaxSize
              /\ buckets' = Prepend(rs.buckets, index, [key |-> key, value |-> value])
              /\ capacity' = rs.capacity
              /\ size' = size + 1
              /\ last' = [call EXCEPT !.ok = TRUE, !.resized = grow, !.inserted = TRUE]

\* a get that unlinks the entry it returns
Get_takesEntry(hasMap, key) ==
    /\ hasMap => map = "live"
    /\ UNCHANGED << map, capacity, size, key_size, mem >>
    /\ buckets' = IF ~hasMap \/ key = NULL THEN buckets
                  ELSE LET data == ReadKey(mem, key, key_size)
                           index == BucketIndex(data, capacity)
                           pos == FindEntry(buckets[index + 1], mem, data, key_size)
                       IN  IF pos = 0 THEN buckets
                           ELSE [buckets EXCEPT ![index + 1] = Unlink(@, pos)]
    /\ last' = [NoCall EXCEPT !.op = "get", !.hasMap = hasMap, !.key = key,
                  !.out = IF ~hasMap \/ key = NULL THEN NULL
                          ELSE hashmap_get(buckets, capacity, mem, key_size, key)]

\* hashmap_get(map, key)
Get(hasMap, key) ==
    /\ hasMap => map = "live"
    /\ UNCHANGED << table, mem >>
    /\ last' = [NoCall EXCEPT !.op = "get", !.hasMap = hasMap, !.key = key,
                  !.out = IF ~hasMap \/ key = NULL THEN NULL
                          ELSE hashmap_get(buckets, capacity, mem, key_size, key)]

\* hashmap_contains(map, key)
Contains(hasMap, key) ==
    /\ hasMap => map = "live"
    /\ UNCHANGED << table, mem >>
    /\ last' = [NoCall EXCEPT !.op = "contains", !.hasMap = hasMap, !.key = key,
                  !.ok = IF ~hasMap \/ key = NULL THEN FALSE
                         ELSE hashmap_contains(buckets, capacity, mem, key_size, key)]

\* hashmap_remove(map, key)
Remove(hasMap, key) ==
    /\ hasMap => map = "live"
    /\ UNCHANGED << map, capacity, key_size, mem >>
    /\ LET call == [NoCall EXCEPT !.op = "remove", !.hasMap = hasMap, !.key = key]
       IN
       IF ~hasMap \/ key = NULL
       THEN /\ UNCHANGED << buckets, size >>
            /\ last' = call
       ELSE
         LET data == ReadKey(mem, key, key_size)
             index == BucketIndex(data, capacity)
             chain == buckets[index + 1]
             pos == FindEntry(chain, mem, data, key_size)
         IN
         IF pos = 0
         THEN /\ UNCHANGED << buckets, size >>
              /\ last' = call
         ELSE /\ buckets' = [buckets EXCEPT ![index + 1] = Unlink(chain, pos)]
              /\ size' = size - 1
              /\ last' = [call EXCEPT !.ok = TRUE, !.released = << chain[pos] >>]

\* a clear whose loop starts at the second bucket
Clear_skipsFirstBucket(hasMap) ==
    /\ hasMap => map = "live"
    /\ UNCHANGED << map, capacity, key_size, mem >>
    /\ IF ~hasMap
       THEN /\ UNCHANGED << buckets, size >>
            /\ last' = [NoCall EXCEPT !.op = "clear"]
       ELSE /\ buckets' = [i \in 1..capacity |-> IF i = 1 THEN buckets[i] ELSE << >>]
            /\ size' = 0
            /\ last' = [NoCall EXCEPT !.op = "clear", !.hasMap = TRUE,
                          !.released = AllEntries(buckets)]

\* hashmap_clear(map)
Clear(hasMap) ==
    /\ hasMap => map = "live"
    /\ UNCHANGED << map, capacity, key_size, mem >>
    /\ IF ~hasMap
       THEN /\ UNCHANGED << buckets, size >>
            /\ last' = [NoCall EXCEPT !.op = "clear"]
       ELSE /\ buckets' = EmptyBuckets(capacity)
            /\ size' = 0
            /\ last' = [NoCall EXCEPT !.op = "clear", !.hasMap = TRUE,
                          !.released = AllEntries(buckets)]

\* hashmap_destroy(map): hashmap_clear, then free(map->buckets) and free(map)
Destroy(hasMap) ==
    /\ hasMap => map = "live"
    /\ UNCHANGED << key_size, mem >>
    /\ IF ~hasMap
       THEN /\ UNCHANGED << map, buckets, capacity, size >>
            /\ last' = [NoCall EXCEPT !.op = "destroy"]
       ELSE /\ map' = "destroyed"
            /\ buckets' = << >>
            /\ capacity' = 0
            /\ size' = 0
            /\ last' = [NoCall EXCEPT !.op = "destroy", !.hasMap = TRUE,
                          !.released = AllEntries(buckets)]

\* a hashmap_size that reads map->size without testing map
Size_ignoresNull(hasMap) ==
    /\ hasMap => map = "live"
    /\ UNCHANGED << table, mem >>
    /\ last' = [NoCall EXCEPT !.op = "size", !.hasMap = hasMap, !.out = size]

\* hashmap_size(map)
Size(hasMap) ==
    /\ hasMap => map = "live"
    /\ UNCHANGED << table, mem >>
    /\ last' = [NoCall EXCEPT !.op = "size", !.hasMap = hasMap,
                  !.out = IF hasMap THEN size ELSE 0]

\* hashmap_is_empty(map)
IsEmpty(hasMap) ==
    /\ hasMap => map = "live"
    /\ UNCHANGED << table, mem >>
    /\ last' = [NoCall EXCEPT !.op = "is_empty", !.hasMap = hasMap,
                  !.ok = IF hasMap THEN size = 0 ELSE TRUE]

\* the caller overwrites one of its own memory regions (a key buffer it
\* reuses for the next key, or memory it released and that is used again)
CallerWrite(b, bytes) ==
    /\ mem[b] # bytes
    /\ mem' = [mem EXCEPT ![b] = bytes]
    /\ last' = [NoCall EXCEPT !.op = "write"]
    /\ UNCHANGED table

KeyArgs == Bufs \cup {NULL}
Lens == 0..BufSize
CapHints == 0..MaxCapHint

\* the outcomes of an allocation: it can fail only where the call reaches it
AllocOutcomes(reached) == IF reached THEN BOOLEAN ELSE {TRUE}

\* A put that is rejected or whose allocation fails never looks at its value,
\* and no put looks at the length: such calls are made with one representative.
PutInputs ==
    {in \in [key : KeyArgs, len : Lens, value : Vals,
             resizeAllocOk : BOOLEAN, entryAllocOk : BOOLEAN] :
        /\ in.key = NULL => in.resizeAllocOk /\ in.entryAllocOk
        /\ (in.key = NULL \/ ~in.resizeAllocOk \/ ~in.entryAllocOk)
              => in.len = BufSize /\ in.value = NULL
        /\ ~in.resizeAllocOk => in.entryAllocOk}

\* The handle the caller passes is its table while it has one, and NULL
\* before hashmap_create_with_key_size has succeeded and after hashmap_destroy.
Next ==
    \/ \E c \in CapHints, ks \in 0..BufSize, a1 \in BOOLEAN :
          \E a2 \in AllocOutcomes(a1) : Create(c, ks, a1, a2) /\ UNCHANGED conc
    \/ \E in \in PutInputs :
          /\ ~in.resizeAllocOk => map = "live" /\ NeedsResize(size, capacity)
          /\ ~in.entryAllocOk => map = "live"
          /\ Put(map = "live", in.key, in.len, in.value, in.resizeAllocOk, in.entryAllocOk)
          /\ UNCHANGED conc
    \/ \E k \in KeyArgs : Get(map = "live", k) /\ UNCHANGED conc
    \/ \E k \in KeyArgs : Contains(map = "live", k) /\ UNCHANGED conc
    \/ \E k \in KeyArgs : Remove(map = "live", k) /\ UNCHANGED conc
    \/ Clear(map = "live") /\ UNCHANGED conc
    \/ Destroy(map = "live") /\ UNCHANGED conc
    \/ Size(map = "live") /\ UNCHANGED conc
    \/ IsEmpty(map = "live") /\ UNCHANGED conc
    \/ \E b \in Bufs, bytes \in Regions : CallerWrite(b, bytes) /\ UNCHANGED conc

Spec == Init /\ [][Next]_vars


\* ---- the life cycle of a table ----
\* Both create functions with every capacity hint and every outcome, puts
\* into the tables of hashmap_create_with_key_size, and clear, destroy, size
\* and is_empty called with the caller's table or with a NULL handle.
CreateHints == 0..MaxCreateHint

NextLifecycle ==
    \/ \E c \in CreateHints, ks \in 0..BufSize, a1 \in BOOLEAN :
          \E a2 \in AllocOutcomes(a1) : Create(c, ks, a1, a2) /\ UNCHANGED conc
    \/ \E c \in CreateHints, h \in BOOLEAN, cmp \in BOOLEAN, a1 \in BOOLEAN :
          \E a2 \in AllocOutcomes(a1) : CreateCustom(c, h, cmp, a1, a2) /\ UNCHANGED conc
    \/ \E k \in Bufs, v \in Vals :
          key_size > 0 /\ Put(map = "live", k, key_size, v, TRUE, TRUE) /\ UNCHANGED conc
    \/ \E h \in {FALSE, map = "live"} : Clear(h) /\ UNCHANGED conc
    \/ \E h \in {FALSE, map = "live"} : Destroy(h) /\ UNCHANGED conc
    \/ \E h \in {FALSE, map = "live"} : Size(h) /\ UNCHANGED conc
    \/ \E h \in {FALSE, map = "live"} : IsEmpty(h) /\ UNCHANGED conc

SpecLifecycle == Init /\ [][NextLifecycle]_vars

\* ---- a table whose capacity is not a power of two ----
\* A table of capacity MaxCreateHint: two of the keys share a bucket, and the
\* table reaches its load-factor threshold with more than one entry.
NextOddCapacity ==
    \/ \E ks \in 1..BufSize : Create(MaxCreateHint, ks, TRUE, TRUE) /\ UNCHANGED conc
    \/ \E k \in Bufs, v \in Vals :
          Put(map = "live", k, key_size, v, TRUE, TRUE) /\ UNCHANGED conc
    \/ \E k \in Bufs : Get(map = "live", k) /\ UNCHANGED conc
    \/ \E k \in Bufs : Remove(map = "live", k) /\ UNCHANGED conc
    \/ \E b \in Bufs, bytes \in Regions : CallerWrite(b, bytes) /\ UNCHANGED conc

SpecOddCapacity == Init /\ [][NextOddCapacity]_vars

\* ---- two threads on one table, without mutual exclusion ----
\* A writer thread runs a put that resizes, and a reader thread runs a get,
\* each one memory access at a time.  An entry is named by the key pointer it
\* holds; the links between entries are the next pointers.

\* entry->value of the entry e
EntryValue(bs, e) ==
    LET es == AllEntries(bs)
    IN  es[CHOOSE n \in 1..Len(es) : es[n].key = e].value

\* the keys of the linked entries
Linked(bs) == {AllEntries(bs)[n].key : n \in 1..Len(AllEntries(bs))}

\* entry->next of every entry, as the chains of an array at rest have it
NextsOf(bs) ==
    [e \in Bufs |->
        IF \E c \in 1..Len(bs) : \E n \in 1..(Len(bs[c]) - 1) : bs[c][n].key = e
        THEN LET c == CHOOSE c \in 1..Len(bs) :
                        \E n \in 1..(Len(bs[c]) - 1) : bs[c][n].key = e
                 n == CHOOSE n \in 1..(Len(bs[c]) - 1) : bs[c][n].key = e
             IN  bs[c][n + 1].key
        ELSE NULL]

\* the chain that starts at head and follows the next pointers
RECURSIVE ChainFrom(_, _, _)
ChainFrom(head, next, bs) ==
    IF head = NULL THEN << >>
    ELSE << [key |-> head, value |-> EntryValue(bs, head)] >>
            \o ChainFrom(next[head], next, bs)

\* the value the table holds for the key bytes, whatever array is published
Stored(bs, m, ks, data) ==
    IF \E e \in Linked(bs) : ReadKey(m, e, ks) = data
    THEN EntryValue(bs, CHOOSE e \in Linked(bs) : ReadKey(m, e, ks) = data)
    ELSE NULL

\* hashmap_resize is between its first relink and the store of the new capacity
InResize == conc.w \in {"rehash", "freed", "published"}

Walking == conc.r \in {"index", "walk"}

\* a get that follows no link
NextOf_null(cursor) == NULL

\* entry->next as the reader finds it in memory
NextOf(cursor) ==
    IF conc.w \in {"rehash", "freed"} THEN conc.next[cursor]
    ELSE NextsOf(buckets)[cursor]

\* hashmap_put up to the calloc of the new bucket array
PutBegin(key, value) ==
    /\ map = "live" /\ conc.w = "idle"
    /\ NeedsResize(size, capacity)
    /\ size < MaxSize \/ \E e \in Linked(buckets) :
                            ReadKey(mem, e, key_size) = ReadKey(mem, key, key_size)
    /\ conc.r # "idle" => ReadKey(mem, key, key_size) # ReadKey(mem, conc.rkey, key_size)
    /\ conc' = [conc EXCEPT !.w = "rehash", !.key = key, !.value = value,
                            !.next = NextsOf(buckets),
                            !.new_buckets = [n \in 1..(capacity * 2) |-> NULL],
                            !.todo = [n \in 1..Len(AllEntries(buckets)) |->
                                         AllEntries(buckets)[n].key],
                            !.i = 1]
    /\ UNCHANGED << table, mem, last >>

\* one round of the rehash loop: the entry is linked into the new array
ResizeRelink ==
    /\ conc.w = "rehash" /\ conc.i <= Len(conc.todo)
    /\ LET entry == conc.todo[conc.i]
           new_index == BucketIndex(ReadKey(mem, entry, key_size), capacity * 2) + 1
       IN  conc' = [conc EXCEPT !.next[entry] = conc.new_buckets[new_index],
                                !.new_buckets[new_index] = entry,
                                !.i = conc.i + 1,
                                !.overlapped = conc.overlapped \/ Walking]
    /\ UNCHANGED << table, mem, last >>

\* free(map->buckets): the table still points at the released array
ResizeFree ==
    /\ conc.w = "rehash" /\ conc.i > Len(conc.todo)
    /\ conc' = [conc EXCEPT !.w = "freed", !.overlapped = conc.overlapped \/ Walking]
    /\ UNCHANGED << table, mem, last >>

\* map->buckets = new_buckets
ResizePublishBuckets ==
    /\ conc.w = "freed"
    /\ buckets' = [n \in 1..(capacity * 2) |->
                      ChainFrom(conc.new_buckets[n], conc.next, buckets)]
    /\ conc' = [conc EXCEPT !.w = "published", !.overlapped = conc.overlapped \/ Walking]
    /\ UNCHANGED << map, capacity, size, key_size, mem, last >>

\* map->capacity = new_capacity
ResizePublishCapacity ==
    /\ conc.w = "published"
    /\ capacity' = capacity * 2
    /\ conc' = [conc EXCEPT !.w = "resized", !.overlapped = conc.overlapped \/ Walking]
    /\ UNCHANGED << map, buckets, size, key_size, mem, last >>

\* hashmap_put after the resize: find the key, update it or link a new entry
PutFinish ==
    /\ conc.w = "resized"
    /\ LET call == [NoCall EXCEPT !.op = "put", !.hasMap = TRUE, !.key = conc.key,
                                  !.len = key_size, !.value = conc.value]
           data == ReadKey(mem, conc.key, key_size)
           index == BucketIndex(data, capacity)
           pos == FindEntry(buckets[index + 1], mem, data, key_size)
       IN  IF pos # 0
           THEN /\ buckets' = SetValue(buckets, index, pos, conc.value)
                /\ size' = size
                /\ last' = [call EXCEPT !.ok = TRUE, !.resized = TRUE,
                              !.replaced = << buckets[index + 1][pos].value >>]
           ELSE /\ size < MaxSize
                /\ buckets' = Prepend(buckets, index,
                                      [key |-> conc.key, value |-> conc.value])
                /\ size' = size + 1
                /\ last' = [call EXCEPT !.ok = TRUE, !.resized = TRUE, !.inserted = TRUE]
    /\ conc' = [conc EXCEPT !.w = "idle", !.key = NULL, !.value = NULL,
                            !.next = << >>, !.new_buckets = << >>,
                            !.todo = << >>, !.i = 0]
    /\ UNCHANGED << map, capacity, key_size, mem >>

\* hashmap_get up to index = hash % map->capacity
GetBegin(key) ==
    /\ map = "live" /\ conc.r = "idle"
    /\ conc.w # "idle" => ReadKey(mem, key, key_size) # ReadKey(mem, conc.key, key_size)
    /\ conc' = [conc EXCEPT !.r = "index", !.rkey = key,
                            !.index = BucketIndex(ReadKey(mem, key, key_size), capacity),
                            !.expected = Stored(buckets, mem, key_size,
                                                ReadKey(mem, key, key_size)),
                            !.overlapped = InResize]
    /\ UNCHANGED << table, mem, last >>

\* entry = map->buckets[index]; a read of the released array may yield any
\* pointer
GetHead ==
    /\ conc.r = "index"
    /\ IF conc.w = "freed"
       THEN \E stale \in Linked(buckets) \cup {NULL} :
               conc' = [conc EXCEPT !.r = "walk", !.cursor = stale,
                                    !.freedRead = TRUE, !.overlapped = TRUE]
       ELSE conc' = [conc EXCEPT !.r = "walk",
                        !.cursor = IF buckets[conc.index + 1] = << >> THEN NULL
                                   ELSE buckets[conc.index + 1][1].key,
                        !.overlapped = conc.overlapped \/ InResize]
    /\ UNCHANGED << table, mem, last >>

\* one round of the while (entry) loop
GetStep ==
    /\ conc.r = "walk"
    /\ IF conc.cursor = NULL
       THEN conc' = [conc EXCEPT !.r = "done", !.result = NULL]
       ELSE IF ReadKey(mem, conc.cursor, key_size) = ReadKey(mem, conc.rkey, key_size)
       THEN conc' = [conc EXCEPT !.r = "done",
                                 !.result = EntryValue(buckets, conc.cursor)]
       ELSE conc' = [conc EXCEPT !.cursor = NextOf(conc.cursor),
                                 !.overlapped = conc.overlapped \/ InResize]
    /\ UNCHANGED << table, mem, last >>

\* hashmap_get has returned
GetEnd ==
    /\ conc.r = "done"
    /\ conc' = [conc EXCEPT !.r = "idle", !.rkey = NULL, !.index = 0, !.cursor = NULL,
                            !.result = NULL, !.expected = NULL,
                            !.overlapped = FALSE, !.freedRead = FALSE]
    /\ last' = [NoCall EXCEPT !.op = "get", !.hasMap = TRUE, !.key = conc.rkey,
                              !.out = conc.result]
    /\ UNCHANGED << table, mem >>

Quiet == conc.w = "idle" /\ conc.r = "idle"

NextConcurrent ==
    \/ \E ks \in 1..BufSize :
          Quiet /\ Create(MaxCreateHint, ks, TRUE, TRUE) /\ UNCHANGED conc
    \/ \E k \in Bufs, v \in Vals :
          /\ Quiet /\ map = "live" /\ ~NeedsResize(size, capacity)
          /\ Put(TRUE, k, key_size, v, TRUE, TRUE) /\ UNCHANGED conc
    \/ \E k \in Bufs, v \in Vals : PutBegin(k, v)
    \/ ResizeRelink
    \/ ResizeFree
    \/ ResizePublishBuckets
    \/ ResizePublishCapacity
    \/ PutFinish
    \/ \E k \in Bufs : GetBegin(k)
    \/ GetHead
    \/ GetStep
    \/ GetEnd

SpecConcurrent == Init /\ [][NextConcurrent]_vars

\* ---- vocabulary of the properties ----
Min(a, b) == IF a < b THEN a ELSE b

Occurrences(seq, x) == Cardinality({i \in 1..Len(seq) : seq[i] = x})

\* how many of the entries hold the value reference v
Holding(entries, v) == Cardinality({i \in 1..Len(entries) : entries[i].value = v})

EntrySet(bs) == {AllEntries(bs)[i] : i \in 1..Len(AllEntries(bs))}

\* the two bucket arrays link the same entries, each as often
SameEntries(bs1, bs2) ==
    \A e \in EntrySet(bs1) \cup EntrySet(bs2) :
        Occurrences(AllEntries(bs1), e) = Occurrences(AllEntries(bs2), e)

\* what a call can read at a buffer that holds the first len bytes of region r
\* as its key: those bytes, then whatever lies behind them
ReadsOfKey(r, len, ks) ==
    {d \in [1..ks -> Bytes] : \A i \in 1..Min(len, ks) : d[i] = r[i]}

\* the chain walk finds an entry for the bytes data
Present(bs, cap, m, ks, data) ==
    FindEntry(bs[BucketIndex(data, cap) + 1], m, data, ks) # 0

\* C1: after a successful put of a key of length >= 1 with value V, a get
\* with the same key bytes and the same length returns V, from whichever
\* buffer the caller presents those bytes.
C1_RoundTrip ==
    (last.op = "put" /\ last.ok /\ last.len >= 1) =>
        \A d \in ReadsOfKey(mem[last.key], last.len, key_size) :
            Lookup(buckets, capacity, mem, key_size, d) = last.value

\* C2: a successful put of a key that is not in the table, resizing on the
\* way, adds one to size, and every key that was retrievable before is
\* retrievable afterwards with the same value.
C2_ResizePreservesContents ==
    [][ (/\ last'.op = "put" /\ last'.ok /\ last'.resized
         /\ last'.len = key_size
         /\ ~Present(buckets, capacity, mem, key_size,
                     ReadKey(mem, last'.key, key_size)))
        => /\ size' = size + 1
           /\ \A d \in [1..key_size -> Bytes] :
                 Lookup(buckets, capacity, mem, key_size, d) # NULL
                    => Lookup(buckets', capacity', mem', key_size', d)
                         = Lookup(buckets, capacity, mem, key_size, d) ]_vars

\* C3: the table owns a copy of the key: when the caller overwrites the
\* buffer it passed to a put that inserted, a get with the bytes that were
\* inserted still returns the value of that put.
C3_KeyOwnership ==
    [][ (/\ last.op = "put" /\ last.inserted /\ last.len = key_size
         /\ last'.op = "write")
        => Lookup(buckets', capacity', mem', key_size',
                  ReadKey(mem, last.key, key_size)) = last.value ]_vars

\* C4: after a remove that returned true, a get of the removed key returns
\* not-found and contains returns false.
C4_RemoveCompleteness ==
    (last.op = "remove" /\ last.ok) =>
        /\ hashmap_get(buckets, capacity, mem, key_size, last.key) = NULL
        /\ ~hashmap_contains(buckets, capacity, mem, key_size, last.key)

\* C5 as stated: a put on a key that is present returns success, leaves size
\* unchanged, and a following get returns the value just put.
C5_UpdateAlwaysSucceeds ==
    [][ (/\ last'.op = "put" /\ last'.hasMap /\ last'.key # NULL
         /\ Present(buckets, capacity, mem, key_size,
                    ReadKey(mem, last'.key, key_size)))
        => /\ last'.ok
           /\ size' = size
           /\ hashmap_get(buckets', capacity', mem', key_size', last'.key)
                = last'.value ]_vars

\* C5 amended: a put on a key that is present leaves size unchanged; it
\* returns success, and a following get returns the value just put, unless
\* the put has to resize first and the new bucket array cannot be allocated.
C5_UpdateKeepsSize ==
    [][ (/\ last'.op = "put" /\ last'.hasMap /\ last'.key # NULL
         /\ Present(buckets, capacity, mem, key_size,
                    ReadKey(mem, last'.key, key_size)))
        => /\ size' = size
           /\ ~last'.allocFailed =>
                 /\ last'.ok
                 /\ hashmap_get(buckets', capacity', mem', key_size', last'.key)
                      = last'.value ]_vars

\* a put replaced the value of a present key by a different one
C5_Witness ==
    /\ last.op = "put" /\ last.ok /\ ~last.inserted
    /\ last.replaced # << >> /\ last.replaced[1] # last.value
    /\ size >= 1

\* C6: with a value-release callback configured, each call invokes it once
\* for every value reference that leaves the table in that call (overwritten
\* by a different reference, removed, cleared, destroyed) and for nothing
\* else: never for a value that stays stored, so not for an update that
\* supplies the reference already stored.
C6_ValueReleasedOnce ==
    [][ \/ buckets' = buckets /\ ValueFreeCalls(TRUE, last') = << >>
        \/ \A stored \in {AllEntries(buckets)}, kept \in {AllEntries(buckets')},
              calls \in {ValueFreeCalls(TRUE, last')}, v \in Vals :
              \A left \in {Holding(stored, v) - Holding(kept, v)} :
                  Occurrences(calls, v) = IF left > 0 THEN left ELSE 0 ]_vars

\* a put supplied the reference already stored, with entries in the table
C6_Witness ==
    /\ last.op = "put" /\ last.ok
    /\ last.replaced = << last.value >> /\ last.value # NULL
    /\ ValueFreeCalls(TRUE, last) = << >>

\* C7: the length is part of the identity of a key: after a put of a key of
\* length L into an otherwise empty table, a get of a key of another length
\* that shares the byte prefix returns not-found.
C7_LengthIsIdentity ==
    (last.op = "put" /\ last.ok /\ last.len >= 1 /\ size = 1) =>
        \A len2 \in (1..BufSize) \ {last.len} :
            \A r \in Regions :
                (\A i \in 1..Min(last.len, len2) : r[i] = mem[last.key][i])
                   => Lookup(buckets, capacity, mem, key_size,
                             SubSeq(r, 1, key_size)) = NULL

\* C8: put, get, remove and contains reject an absent table and an absent
\* key, and put rejects a key length of zero: the call returns its failure
\* value and changes nothing.
C8_InvalidArgumentsRejected ==
    [][ (/\ last'.op \in {"put", "get", "remove", "contains"}
         /\ \/ ~last'.hasMap
            \/ last'.key = NULL
            \/ last'.op = "put" /\ last'.len = 0)
        => /\ ~last'.ok
           /\ last'.out = NULL
           /\ UNCHANGED << table, mem >> ]_vars

\* C9 as stated: a put that fails because an allocation failed leaves the
\* table exactly as it was: size, capacity and buckets.
C9_FailedPutChangesNothing ==
    [][ (last'.op = "put" /\ last'.allocFailed)
        => /\ ~last'.ok
           /\ UNCHANGED << buckets, capacity, size >> ]_vars

\* C9 amended: a put that fails because an allocation failed leaves size and
\* the entries with their values as they were; capacity and the bucket array
\* are unchanged too, except that a resize completed before the failing entry
\* allocation stays: capacity is doubled and the same entries are relinked.
C9_FailedPutKeepsEntries ==
    [][ (last'.op = "put" /\ last'.allocFailed)
        => /\ ~last'.ok
           /\ size' = size
           /\ SameEntries(buckets, buckets')
           /\ IF last'.resized
              THEN capacity' = capacity * 2 /\ Len(buckets') = capacity'
              ELSE UNCHANGED << buckets, capacity >> ]_vars

\* the entry allocation failed after a resize that moved entries
C9_Witness ==
    /\ last.op = "put" /\ last.allocFailed /\ last.resized
    /\ size >= 1

\* C10: when a put has to resize and the new bucket array cannot be
\* allocated, put returns failure and capacity, size, the buckets and the
\* result of every lookup are as before the call.
C10_ResizeFailureChangesNothing ==
    [][ (/\ last'.op = "put" /\ last'.allocFailed /\ ~last'.resized
         /\ NeedsResize(size, capacity))
        => /\ ~last'.ok
           /\ UNCHANGED << buckets, capacity, size >>
           /\ \A d \in [1..key_size -> Bytes] :
                 Lookup(buckets', capacity', mem', key_size', d)
                   = Lookup(buckets, capacity, mem, key_size, d) ]_vars

\* the bucket-array allocation failed on a table that holds entries
C10_Witness ==
    /\ last.op = "put" /\ last.allocFailed /\ ~last.resized
    /\ NeedsResize(size, capacity)
    /\ size >= 1

\* the entries of the chain that the bytes data hash to include one whose key
\* bytes equal data
InChain(bs, cap, m, ks, data) ==
    \E i \in 1..Len(bs[BucketIndex(data, cap) + 1]) :
        ReadKey(m, bs[BucketIndex(data, cap) + 1][i].key, ks) = data

\* how many of the entries hold the key reference k
HoldingKey(entries, k) == Cardinality({i \in 1..Len(entries) : entries[i].key = k})

\* C11: contains returns true exactly when the table holds an entry for the
\* key, whatever value reference is stored with it, a null reference included.
C11_ContainsIffPresent ==
    (last.op = "contains" /\ last.hasMap /\ last.key # NULL) =>
        (last.ok <=> InChain(buckets, capacity, mem, key_size,
                             ReadKey(mem, last.key, key_size)))

\* C12: in every reachable state size equals the number of entries linked
\* across all bucket chains.
C12_SizeCountsEntries ==
    map = "live" => size = Len(AllEntries(buckets))

\* a remove has unlinked one of two entries
C12_Witness ==
    /\ last.op = "remove" /\ last.ok
    /\ size = 1 /\ Len(AllEntries(buckets)) = 1

\* C13: the capacity of a table is positive; no operation decreases it, and
\* when it changes it becomes exactly twice its previous value.
C13_CapacityOnlyDoubles ==
    [][ /\ map' = "live" => capacity' > 0 /\ Len(buckets') = capacity'
        /\ (map = "live" /\ map' = "live") =>
              /\ capacity' >= capacity
              /\ capacity' # capacity => capacity' = 2 * capacity ]_vars

\* a second resize has taken a table of capacity 2 to capacity 4
C13_Witness ==
    /\ last.op = "put" /\ last.resized
    /\ capacity = 4 /\ size >= 1

\* C14: a remove of a key that is not present returns false and leaves size,
\* capacity, the chains and the stored values unchanged.
C14_RemoveAbsentChangesNothing ==
    [][ (/\ last'.op = "remove" /\ last'.hasMap /\ last'.key # NULL
         /\ ~InChain(buckets, capacity, mem, key_size,
                     ReadKey(mem, last'.key, key_size)))
        => /\ ~last'.ok
           /\ last'.released = << >>
           /\ UNCHANGED << table, mem >> ]_vars

\* a remove did not find its key in a table that holds entries
C14_Witness ==
    /\ last.op = "remove" /\ last.hasMap /\ last.key # NULL /\ ~last.ok
    /\ size >= 1

\* C15: after clear size is 0, every bucket slot is empty, get and contains
\* find no key, and capacity is what it was; a clear of an empty table
\* changes nothing.
C15_ClearEmptiesTable ==
    [][ (last'.op = "clear" /\ last'.hasMap)
        => /\ size' = 0
           /\ capacity' = capacity
           /\ Len(buckets') = capacity
           /\ \A i \in 1..capacity : buckets'[i] = << >>
           /\ \A d \in [1..key_size -> Bytes] :
                 Lookup(buckets', capacity', mem', key_size', d) = NULL
           /\ \A k \in Bufs :
                 ~hashmap_contains(buckets', capacity', mem', key_size', k)
           /\ size = 0 => UNCHANGED << table, mem >> ]_vars

\* a clear released the entries of a full table
C15_Witness ==
    /\ last.op = "clear" /\ last.hasMap
    /\ Len(last.released) = MaxSize
    /\ size = 0

\* C16: destroy and clear called with a NULL table reference do nothing, and
\* size and is_empty called with a NULL reference return 0 and true, whatever
\* table the caller has.
C16_AbsentHandleTolerated ==
    [][ (last'.op \in {"destroy", "clear", "size", "is_empty"} /\ ~last'.hasMap)
        => /\ UNCHANGED << table, mem >>
           /\ last'.released = << >>
           /\ last'.op = "size" => last'.out = 0
           /\ last'.op = "is_empty" => last'.ok ]_vars

\* size was called with a NULL reference while the caller's table holds entries
C16_Witness ==
    /\ last.op = "size" /\ ~last.hasMap /\ last.out = 0
    /\ map = "live" /\ size >= 1

\* C17: a create that succeeds returns an empty table: size 0, every bucket
\* slot empty, capacity 16 for the hint 0 and the hint itself otherwise.
C17_CreateReturnsEmptyTable ==
    [][ (last'.op \in {"create", "create_custom"} /\ last'.ok)
        => /\ map' = "live"
           /\ size' = 0
           /\ capacity' = IF last'.out = 0 THEN 16 ELSE last'.out
           /\ Len(buckets') = capacity'
           /\ \A i \in 1..capacity' : buckets'[i] = << >> ]_vars

\* hashmap_create made a table with a hint that is not a power of two
C17_Witness ==
    /\ last.op = "create_custom" /\ last.ok /\ last.out = 3
    /\ map = "live" /\ capacity = 3

C19_KeyStorageReleasedOnce ==
    [][ \A kf \in BOOLEAN :
          \/ buckets' = buckets /\ FreedKeysOf(kf, last'.released) = << >>
          \/ \A stored \in {AllEntries(buckets)}, kept \in {AllEntries(buckets')},
                calls \in {FreedKeysOf(kf, last'.released)}, k \in Bufs :
                \A left \in {HoldingKey(stored, k) - HoldingKey(kept, k)} :
                    Occurrences(calls, k) = IF left > 0 THEN left ELSE 0 ]_vars

\* C20: get and contains leave size, capacity, the bucket array, every chain
\* and every stored key and value unchanged, and invoke no release callback.
C20_GetIsReadOnly ==
    [][ last'.op \in {"get", "contains"}
        => /\ UNCHANGED << table, mem >>
           /\ ValueFreeCalls(TRUE, last') = << >>
           /\ FreedKeysOf(TRUE, last'.released) = << >> ]_vars

\* a get returned a stored value from a table with two entries
C20_Witness ==
    /\ last.op = "get" /\ last.hasMap /\ last.out # NULL
    /\ size = 2

C22_GrowsOnlyAboveLoadFactor ==
    [][ (/\ last'.op = "put" /\ last'.hasMap /\ last'.key # NULL
         /\ 4 * size <= 3 * capacity)
        => capacity' = capacity ]_vars

\* C23: every entry is linked in the chain of the bucket that the hash of its
\* own key bytes selects, hash mod capacity.
C23_BucketPlacement ==
    map = "live" =>
        \A i \in 1..Len(buckets) : \A j \in 1..Len(buckets[i]) :
            BucketIndex(ReadKey(mem, buckets[i][j].key, key_size), capacity) + 1 = i

\* every stored value reference is non-null
AllNonNull(bs) == \A e \in EntrySet(bs) : e.value # NULL

\* C25: without mutual exclusion a get that runs concurrently with the resize
\* of a put can return a wrong result for a key that is present throughout
\* (the witness: NULL for a stored key, read from entries already relinked
\* while the old array and the old capacity are still published); a get
\* returns a wrong result only when it overlapped such a resize.
C25_WrongResultOnlyWhenOverlapped ==
    (conc.r = "done" /\ conc.result # conc.expected) => conc.overlapped

\* a get returned a wrong result for a stored key while the writer was still
\* relinking entries, before the old array was released
C25_Witness ==
    /\ conc.r = "done" /\ conc.expected # NULL /\ conc.result # conc.expected
    /\ conc.w = "rehash" /\ ~conc.freedRead
    /\ Stored(buckets, mem, key_size, ReadKey(mem, conc.rkey, key_size)) = conc.expected

\* C26: with non-null values and keys of key_size bytes, the results of the
\* calls are those of a finite map from key bytes to value references: put
\* assigns, remove deletes, get looks up, clear empties, size counts, a call on
\* one key changes no other key, and what the caller does with its own
\* buffers changes nothing.
C26_AbstractMapRefinement ==
    [][ (map = "live" /\ map' = "live" /\ AllNonNull(buckets))
        => \A M \in {[d \in [1..key_size -> Bytes] |->
                        Lookup(buckets, capacity, mem, key_size, d)]},
              N \in {[d \in [1..key_size -> Bytes] |->
                        Lookup(buckets', capacity', mem', key_size', d)]} :
              /\ size = Cardinality({d \in DOMAIN M : M[d] # NULL})
              /\ last'.op = "write" => N = M
              /\ (last'.op = "put" /\ last'.ok /\ last'.len = key_size
                    /\ last'.value # NULL)
                 => \A K \in {ReadKey(mem, last'.key, key_size)} :
                       /\ \A d \in DOMAIN M :
                             N[d] = IF d = K THEN last'.value ELSE M[d]
                       /\ size' = IF M[K] = NULL THEN size + 1 ELSE size
              /\ (last'.op = "remove" /\ last'.key # NULL)
                 => \A K \in {ReadKey(mem, last'.key, key_size)} :
                       /\ last'.ok = (M[K] # NULL)
                       /\ \A d \in DOMAIN M :
                             N[d] = IF d = K THEN NULL ELSE M[d]
                       /\ size' = IF M[K] # NULL THEN size - 1 ELSE size
              /\ (last'.op = "get" /\ last'.key # NULL)
                 => last'.out = M[ReadKey(mem, last'.key, key_size)]
              /\ (last'.op = "contains" /\ last'.key # NULL)
                 => last'.ok = (M[ReadKey(mem, last'.key, key_size)] # NULL)
              /\ last'.op = "clear"
                 => size' = 0 /\ \A d \in DOMAIN M : N[d] = NULL
              /\ last'.op = "size" => last'.out = size
              /\ last'.op = "is_empty" => last'.ok = (size = 0) ]_vars

\* C27: no two entries of the table have equal key bytes.
C27_NoDuplicateKeys ==
    map = "live" =>
        \A es \in {AllEntries(buckets)} :
            \A i \in 1..Len(es), j \in 1..Len(es) :
                i # j => ReadKey(mem, es[i].key, key_size)
                           # ReadKey(mem, es[j].key, key_size)

C24_RemoveUnlinksOnlyMatch ==
    [][ (last'.op = "remove" /\ last'.ok)
        => \A K \in {ReadKey(mem, last'.key, key_size)} :
           \A index \in {BucketIndex(K, capacity) + 1} :
           \E pos \in 1..Len(buckets[index]) :
              /\ ReadKey(mem, buckets[index][pos].key, key_size) = K
              /\ \A j \in 1..(pos - 1) :
                    ReadKey(mem, buckets[index][j].key, key_size) # K
              /\ last'.released = << buckets[index][pos] >>
              /\ Len(buckets') = Len(buckets)
              /\ buckets'[index] =
                    [j \in 1..(Len(buckets[index]) - 1) |->
                        IF j < pos THEN buckets[index][j] ELSE buckets[index][j + 1]]
              /\ \A i \in 1..Len(buckets) : i # index => buckets'[i] = buckets[i]
              /\ capacity' = capacity /\ size' = size - 1
              /\ mem' = mem ]_vars

\* a remove unlinked one of the two entries of a chain
C24_Witness ==
    /\ last.op = "remove" /\ last.ok /\ size = 1
    /\ Len(buckets[BucketIndex(ReadKey(mem, last.key, key_size), capacity) + 1]) = 1

\* C29: a put that only updates a present key doubles capacity when size >=
\* capacity * 3 / 4 (integer arithmetic) at the start of the call, and leaves
\* size and the value of every other key unchanged.
C29_UpdateResizesFirst ==
    [][ (/\ last'.op = "put" /\ last'.ok /\ ~last'.inserted
         /\ size >= (capacity * 3) \div 4)
        => /\ capacity' = capacity * 2
           /\ size' = size
           /\ \A d \in [1..key_size -> Bytes] :
                 d # ReadKey(mem, last'.key, key_size)
                    => Lookup(buckets', capacity', mem', key_size', d)
                         = Lookup(buckets, capacity, mem, key_size, d) ]_vars

\* C30: a put that updates a present key stores no key reference and passes
\* none to key_free: every entry keeps the key reference it has, and with a
\* key_free callback configured the key of the updating call is not released.
C30_UpdateKeepsKeyReference ==
    [][ (last'.op = "put" /\ last'.ok /\ ~last'.inserted)
        => /\ KeyFreeCalls(TRUE, last') = << >>
           /\ \A stored \in {AllEntries(buckets)}, kept \in {AllEntries(buckets')} :
                 \A k \in Bufs : HoldingKey(stored, k) = HoldingKey(kept, k) ]_vars

\* an update was made through a buffer other than the one the entry refers to
C30_Witness ==
    /\ last.op = "put" /\ last.ok /\ ~last.inserted /\ last.replaced # << >>
    /\ \A e \in EntrySet(buckets) : e.key # last.key
====
